---- MODULE Spec2Model ----
(***************************************************************************)
(* Model of src/OAuth_Token_Cleanup_Cron.py: the module-level argument     *)
(* validation (lines 39-51), sendEmailAlert (54-64) and deleteExpiredIDs   *)
(* (66-121), run once against a Cassandra keyspace holding the tables      *)
(* oauth2_tokens, oauth2_credentials and consumers.                        *)
(*                                                                         *)
(* A datetime is a record [wall, tz]: the wall-clock reading and the       *)
(* tzinfo ("None" for a naive value, otherwise a zone name).  The instant  *)
(* an aware datetime denotes is wall - utcoffset(tz).                      *)
(***************************************************************************)
EXTENDS Integers, Sequences, FiniteSets, TLC

VARIABLES
    pc,                   \* position of the script
    args,                 \* parsed command line (ssl, ca, email, smtpserver)
    clock,                \* the wall clock (UTC) of the host
    cluster,              \* "none" | "connected" | "shutdown"
    current_time,         \* datetime captured at line 72
    count_before,         \* line 76
    rows,                 \* result set of the SELECT at line 79
    idx,                  \* position of the for loop of line 82 in rows
    rowsdeleted,          \* line 80 / 100
    consumer_tokens,      \* dict of line 81, in insertion order
    oauth2_tokens,        \* the table oauth2_tokens of the keyspace
    count_after,          \* line 104
    ridx,                 \* position of the for loop of line 108
    consumer_abuse_table, \* the abuse lines appended at lines 115-118
    emails,               \* number of messages handed to the SMTP relay
    raised                \* the exception that ended the run, or "none"

vars == <<pc, args, clock, cluster, current_time, count_before, rows, idx,
          rowsdeleted, consumer_tokens, oauth2_tokens, count_after, ridx,
          consumer_abuse_table, emails, raised>>

----------------------------------------------------------------------------
(* Bounds of the model *)

MaxTokens == 2     \* rows of the freely chosen token tables
MaxTtl    == 1     \* largest expires_in of a freely chosen token
MaxTicks  == 1     \* clock ticks that may pass during the run
StartClock == 1    \* clock reading when the process starts
BaseWall  == 1     \* wall-clock reading of created_at of a freely chosen token

(* Program constant: the abuse threshold of line 109 *)
AbuseThreshold == 100

----------------------------------------------------------------------------
(* Values *)

None == "None"

TzInfos == {None, "UTC", "+01:00"}

\* utcoffset() of an aware datetime's tzinfo
UtcOffset(tz) == IF tz = "+01:00" THEN 1 ELSE 0

\* datetime.datetime.now(pytz.utc), line 72
NowUtc(c) == [wall |-> c, tz |-> "UTC"]

\* lines 84-87: a naive created_at gets tzinfo=pytz.utc, the wall reading kept
Normalize_localtime(created_at) ==
    IF created_at.tz = None
    THEN [wall |-> created_at.wall, tz |-> "+01:00"]
    ELSE created_at

Normalize(created_at) ==
    IF created_at.tz = None
    THEN [wall |-> created_at.wall, tz |-> "UTC"]
    ELSE created_at

\* line 90: created_at + datetime.timedelta(seconds=expires_in)
PlusSeconds(dt, secs) == [wall |-> dt.wall + secs, tz |-> dt.tz]

\* comparison of two aware datetimes: by the instants they denote
Instant(dt) == dt.wall - UtcOffset(dt.tz)

\* line 92: current_time > expiration_time
Expired_inclusive(now, expiration_time) == Instant(now) >= Instant(expiration_time)

Expired(now, expiration_time) == Instant(now) > Instant(expiration_time)

\* lines 83-92 for one row
ExpirationTime(token_row) ==
    PlusSeconds(Normalize(token_row.created_at), token_row.expires_in)

\* Python truthiness of an optional string argument
Truthy(s) == s # None /\ s # ""

\* line 55: if args.email and args.smtpserver
ShouldSend_either(a) == Truthy(a.email) \/ Truthy(a.smtpserver)

ShouldSend(a) == Truthy(a.email) /\ Truthy(a.smtpserver)

\* os.path.exists, line 43
ExistingPaths == {"ca.pem"}

\* lines 40-44: the two parser.error calls
UsageError_noexists(a) == a.ssl /\ a.ca = None

UsageError(a) == a.ssl /\ (a.ca = None \/ a.ca \notin ExistingPaths)

\* lines 94-97: consumer_tokens[credential_id] += 1, or = 1 for a new key
HasKey(d, k) == \E i \in 1..Len(d) : d[i].key = k

Bump_reset(d, k) ==
    IF HasKey(d, k)
    THEN [i \in 1..Len(d) |-> IF d[i].key = k THEN [d[i] EXCEPT !.value = 1] ELSE d[i]]
    ELSE Append(d, [key |-> k, value |-> 1])

Bump(d, k) ==
    IF HasKey(d, k)
    THEN [i \in 1..Len(d) |-> IF d[i].key = k THEN [d[i] EXCEPT !.value = @ + 1] ELSE d[i]]
    ELSE Append(d, [key |-> k, value |-> 1])

\* line 101: DELETE from oauth2_tokens where id=<id>
DeleteById_noop(table, id) == table

DeleteById(table, id) == SelectSeq(table, LAMBDA r : r.id # id)

\* line 109: if value >= 100
IsAbuse_strict(value) == value > AbuseThreshold

IsAbuse(value) == value >= AbuseThreshold

\* table oauth2_credentials (id -> consumer_id), read at lines 110-111
Credentials == {"c1", "c2", "c3"}
ConsumerOf(c) == IF c = "c2" THEN "k2" ELSE "k1"

\* table consumers (id -> username), read at lines 112-113
UsernameOf(k) == IF k = "k1" THEN "alice" ELSE "bob"

\* lines 110-118: the line appended for one offending credential
AbuseLine(key, value) ==
    [consumer_id |-> ConsumerOf(key),
     username    |-> UsernameOf(ConsumerOf(key)),
     tokens      |-> value]

----------------------------------------------------------------------------
(* Initial contents of oauth2_tokens *)

TokenKinds ==
    [credential_id : {"c1", "c2"},
     expires_in    : 0..MaxTtl,
     created_at    : [wall : {BaseWall}, tz : TzInfos]]

WithIds(kinds) ==
    [i \in 1..Len(kinds) |->
        [id            |-> i,
         credential_id |-> kinds[i].credential_id,
         expires_in    |-> kinds[i].expires_in,
         created_at    |-> kinds[i].created_at]]

SmallTables ==
    {WithIds(k) : k \in UNION {[1..n -> TokenKinds] : n \in 0..MaxTokens}}

\* n1 expired tokens of c1, then n2 of c2, then n3 of c3
BulkTable(n1, n2, n3) ==
    [i \in 1..(n1 + n2 + n3) |->
        [id            |-> i,
         credential_id |-> IF i <= n1 THEN "c1"
                           ELSE IF i <= n1 + n2 THEN "c2" ELSE "c3",
         expires_in    |-> 0,
         created_at    |-> [wall |-> 0, tz |-> None]]]

\* the numbers of expired tokens of c1, c2 and c3 in the bulk tables
BulkCounts ==
    {<<150, 40, 0>>,
     <<AbuseThreshold - 1, 40, AbuseThreshold>>,
     <<AbuseThreshold, AbuseThreshold, 0>>,
     <<AbuseThreshold, AbuseThreshold, AbuseThreshold>>}

BulkTables == {BulkTable(n[1], n[2], n[3]) : n \in BulkCounts}

ArgSets ==
    [ssl        : BOOLEAN,
     ca         : {None, "missing.pem", "ca.pem"},
     email      : {None, "ops@example.com"},
     smtpserver : {None, "mail.relay.com"}]

Terminal == {"usage_error", "failed", "done"}

----------------------------------------------------------------------------
Init ==
    /\ pc = "parse"
    /\ args \in ArgSets
    /\ clock = StartClock
    /\ cluster = "none"
    /\ current_time = NowUtc(0)
    /\ count_before = 0
    /\ rows = <<>>
    /\ idx = 1
    /\ rowsdeleted = 0
    /\ consumer_tokens = <<>>
    /\ oauth2_tokens \in SmallTables \cup BulkTables
    /\ count_after = 0
    /\ ridx = 1
    /\ consumer_abuse_table = <<>>
    /\ emails = 0
    /\ raised = "none"

\* time passes while the script runs
Tick ==
    /\ pc \notin Terminal
    /\ clock < StartClock + MaxTicks
    /\ clock' = clock + 1
    /\ UNCHANGED <<pc, args, cluster, current_time, count_before, rows, idx,
                   rowsdeleted, consumer_tokens, oauth2_tokens, count_after,
                   ridx, consumer_abuse_table, emails, raised>>

\* lines 39-51
ParseArgs ==
    /\ pc = "parse"
    /\ pc' = IF UsageError(args) THEN "usage_error" ELSE "connect"
    /\ UNCHANGED <<args, clock, cluster, current_time, count_before, rows, idx,
                   rowsdeleted, consumer_tokens, oauth2_tokens, count_after,
                   ridx, consumer_abuse_table, emails, raised>>

\* an unhandled exception ends the process; raised keeps the statement it
\* came from
Raise ==
    /\ pc' = "failed"
    /\ raised' = pc

\* lines 67-69
Connect ==
    /\ pc = "connect"
    /\ cluster' = "connected"
    /\ pc' = "now"
    /\ UNCHANGED <<args, clock, current_time, count_before, rows, idx,
                   rowsdeleted, consumer_tokens, oauth2_tokens, count_after,
                   ridx, consumer_abuse_table, emails, raised>>

ConnectFails ==
    /\ pc = "connect"
    /\ Raise
    /\ UNCHANGED <<args, clock, cluster, current_time, count_before, rows, idx,
                   rowsdeleted, consumer_tokens, oauth2_tokens, count_after,
                   ridx, consumer_abuse_table, emails>>

\* lines 72-73
CaptureNow ==
    /\ pc = "now"
    /\ current_time' = NowUtc(clock)
    /\ pc' = "count_before"
    /\ UNCHANGED <<args, clock, cluster, count_before, rows, idx,
                   rowsdeleted, consumer_tokens, oauth2_tokens, count_after,
                   ridx, consumer_abuse_table, emails, raised>>

\* lines 76-77
CountBefore ==
    /\ pc = "count_before"
    /\ count_before' = Len(oauth2_tokens)
    /\ pc' = "select"
    /\ UNCHANGED <<args, clock, cluster, current_time, rows, idx,
                   rowsdeleted, consumer_tokens, oauth2_tokens, count_after,
                   ridx, consumer_abuse_table, emails, raised>>

\* position after the for loop of line 82 has taken row i
AfterRow_nocount(i, rs) == IF i >= Len(rs) THEN "notify" ELSE "scan"

AfterRow(i, rs) == IF i >= Len(rs) THEN "count_after" ELSE "scan"

\* lines 79-81
SelectRows ==
    /\ pc = "select"
    /\ rows' = oauth2_tokens
    /\ rowsdeleted' = 0
    /\ consumer_tokens' = <<>>
    /\ idx' = 1
    /\ pc' = AfterRow(0, oauth2_tokens)
    /\ UNCHANGED <<args, clock, cluster, current_time, count_before,
                   oauth2_tokens, count_after, ridx, consumer_abuse_table,
                   emails, raised>>

\* lines 76, 79, 104: a query that raises
QueryFails ==
    /\ pc \in {"count_before", "select", "count_after"}
    /\ Raise
    /\ UNCHANGED <<args, clock, cluster, current_time, count_before, rows, idx,
                   rowsdeleted, consumer_tokens, oauth2_tokens, count_after,
                   ridx, consumer_abuse_table, emails>>

\* lines 82-92 with the condition of line 92 false
ScanRetain ==
    /\ pc = "scan"
    /\ ~Expired(current_time, ExpirationTime(rows[idx]))
    /\ idx' = idx + 1
    /\ pc' = AfterRow(idx, rows)
    /\ UNCHANGED <<args, clock, cluster, current_time, count_before, rows,
                   rowsdeleted, consumer_tokens, oauth2_tokens, count_after,
                   ridx, consumer_abuse_table, emails, raised>>

\* lines 82-101 with the condition of line 92 true
ScanDelete ==
    /\ pc = "scan"
    /\ Expired(current_time, ExpirationTime(rows[idx]))
    /\ consumer_tokens' = Bump(consumer_tokens, rows[idx].credential_id)
    /\ rowsdeleted' = rowsdeleted + 1
    /\ oauth2_tokens' = DeleteById(oauth2_tokens, rows[idx].id)
    /\ idx' = idx + 1
    /\ pc' = AfterRow(idx, rows)
    /\ UNCHANGED <<args, clock, cluster, current_time, count_before, rows,
                   count_after, ridx, consumer_abuse_table, emails, raised>>

\* lines 92-101 where session.execute of line 101 raises; the write may or
\* may not have been applied by the cluster (a write timeout)
DeleteFails_swallowed ==
    /\ pc = "scan"
    /\ Expired(current_time, ExpirationTime(rows[idx]))
    /\ consumer_tokens' = Bump(consumer_tokens, rows[idx].credential_id)
    /\ rowsdeleted' = rowsdeleted + 1
    /\ \E applied \in BOOLEAN :
          oauth2_tokens' = IF applied
                           THEN DeleteById(oauth2_tokens, rows[idx].id)
                           ELSE oauth2_tokens
    /\ raised' = pc
    /\ idx' = idx + 1
    /\ pc' = AfterRow(idx, rows)
    /\ UNCHANGED <<args, clock, cluster, current_time, count_before, rows,
                   count_after, ridx, consumer_abuse_table, emails>>

DeleteFails ==
    /\ pc = "scan"
    /\ Expired(current_time, ExpirationTime(rows[idx]))
    /\ consumer_tokens' = Bump(consumer_tokens, rows[idx].credential_id)
    /\ rowsdeleted' = rowsdeleted + 1
    /\ \E applied \in BOOLEAN :
          oauth2_tokens' = IF applied
                           THEN DeleteById(oauth2_tokens, rows[idx].id)
                           ELSE oauth2_tokens
    /\ Raise
    /\ UNCHANGED <<args, clock, cluster, current_time, count_before, rows, idx,
                   count_after, ridx, consumer_abuse_table, emails>>

\* position after the for loop of line 108 has taken item i
AfterItem(i, d) == IF i >= Len(d) THEN "notify" ELSE "report"

\* lines 104-107
CountAfter ==
    /\ pc = "count_after"
    /\ count_after' = Len(oauth2_tokens)
    /\ consumer_abuse_table' = <<>>
    /\ ridx' = 1
    /\ pc' = AfterItem(0, consumer_tokens)
    /\ UNCHANGED <<args, clock, cluster, current_time, count_before, rows, idx,
                   rowsdeleted, consumer_tokens, oauth2_tokens, emails, raised>>

\* lines 108-109 with the condition of line 109 false
ReportSkip ==
    /\ pc = "report"
    /\ ~IsAbuse(consumer_tokens[ridx].value)
    /\ ridx' = ridx + 1
    /\ pc' = AfterItem(ridx, consumer_tokens)
    /\ UNCHANGED <<args, clock, cluster, current_time, count_before, rows, idx,
                   rowsdeleted, consumer_tokens, oauth2_tokens, count_after,
                   consumer_abuse_table, emails, raised>>

\* lines 108-118 with the condition of line 109 true
ReportAbuse ==
    /\ pc = "report"
    /\ IsAbuse(consumer_tokens[ridx].value)
    /\ consumer_abuse_table' =
          Append(consumer_abuse_table,
                 AbuseLine(consumer_tokens[ridx].key, consumer_tokens[ridx].value))
    /\ ridx' = ridx + 1
    /\ pc' = AfterItem(ridx, consumer_tokens)
    /\ UNCHANGED <<args, clock, cluster, current_time, count_before, rows, idx,
                   rowsdeleted, consumer_tokens, oauth2_tokens, count_after,
                   emails, raised>>

\* lines 110-113 where a lookup raises or returns no row
LookupFails ==
    /\ pc = "report"
    /\ IsAbuse(consumer_tokens[ridx].value)
    /\ Raise
    /\ UNCHANGED <<args, clock, cluster, current_time, count_before, rows, idx,
                   rowsdeleted, consumer_tokens, oauth2_tokens, count_after,
                   ridx, consumer_abuse_table, emails>>

\* line 120 with lines 54-64
SendEmailAlert ==
    /\ pc = "notify"
    /\ emails' = IF ShouldSend(args) THEN emails + 1 ELSE emails
    /\ pc' = "shutdown"
    /\ UNCHANGED <<args, clock, cluster, current_time, count_before, rows, idx,
                   rowsdeleted, consumer_tokens, oauth2_tokens, count_after,
                   ridx, consumer_abuse_table, raised>>

\* lines 62-64 where smtplib raises: before the message was accepted
\* (SMTP(), sendmail) or after it (quit)
SmtpFails ==
    /\ pc = "notify"
    /\ ShouldSend(args)
    /\ \E accepted \in BOOLEAN :
          emails' = IF accepted THEN emails + 1 ELSE emails
    /\ Raise
    /\ UNCHANGED <<args, clock, cluster, current_time, count_before, rows, idx,
                   rowsdeleted, consumer_tokens, oauth2_tokens, count_after,
                   ridx, consumer_abuse_table>>

\* line 121
Shutdown ==
    /\ pc = "shutdown"
    /\ cluster' = "shutdown"
    /\ pc' = "done"
    /\ UNCHANGED <<args, clock, current_time, count_before, rows, idx,
                   rowsdeleted, consumer_tokens, oauth2_tokens, count_after,
                   ridx, consumer_abuse_table, emails, raised>>

Next ==
    \/ Tick
    \/ ParseArgs
    \/ Connect
    \/ ConnectFails
    \/ CaptureNow
    \/ CountBefore
    \/ SelectRows
    \/ QueryFails
    \/ ScanRetain
    \/ ScanDelete
    \/ DeleteFails
    \/ CountAfter
    \/ ReportSkip
    \/ ReportAbuse
    \/ LookupFails
    \/ SendEmailAlert
    \/ SmtpFails
    \/ Shutdown

Spec == Init /\ [][Next]_vars

----------------------------------------------------------------------------
(* Properties *)

\* the statement the run has reached: where it is, or where it was ended
Position == IF pc = "failed" THEN raised ELSE pc

ScanCompleted == Position \in {"count_after", "report", "notify", "shutdown", "done"}

AfterCountRead == Position \in {"report", "notify", "shutdown", "done"}

ReportBuilt == Position \in {"notify", "shutdown", "done"}

\* ids of the records still in oauth2_tokens
PresentIds == {oauth2_tokens[k].id : k \in 1..Len(oauth2_tokens)}

\* the instant created_at denotes, a naive value read as UTC
CreatedInstant(r) ==
    IF r.created_at.tz = "+01:00" THEN r.created_at.wall - 1 ELSE r.created_at.wall

\* C1: once the scan has completed, a record returned by the scan is gone from
\* the table if and only if the captured now is strictly later than
\* created_at + expires_in (a tie is retained), and the captured now is never
\* re-read after line 72.
C1_DeletedIffExpired ==
    /\ [](ScanCompleted =>
            LET present == PresentIds IN
            \A i \in 1..Len(rows) :
                (rows[i].id \notin present)
                    <=> (current_time.wall > CreatedInstant(rows[i]) + rows[i].expires_in))
    /\ [][pc # "now" => current_time' = current_time]_vars

C1_Witness ==
    /\ pc = "done"
    /\ clock > current_time.wall
    /\ Len(rows) = 2
    /\ Len(oauth2_tokens) = 1
    /\ current_time.wall = CreatedInstant(oauth2_tokens[1]) + oauth2_tokens[1].expires_in

\* C2: once the second count has been read, count_after equals
\* count_before minus rowsdeleted.
C2_CountsBalance ==
    AfterCountRead => count_after = count_before - rowsdeleted

C2_Witness ==
    /\ pc = "done"
    /\ rowsdeleted > 0
    /\ count_after > 0

\* number of report lines naming a consumer
LinesOfConsumer(k) ==
    Cardinality({i \in 1..Len(consumer_abuse_table) :
                    consumer_abuse_table[i].consumer_id = k})

\* the tally of a credential, 0 when it has no entry
TallyOf(c) ==
    IF HasKey(consumer_tokens, c)
    THEN consumer_tokens[CHOOSE i \in 1..Len(consumer_tokens) : consumer_tokens[i].key = c].value
    ELSE 0

\* C3 as stated: when the report is built, the consumer of a credential
\* appears in the report exactly when the credential's tally is >= 100, and
\* then exactly once, with that tally as its count.
C3_ConsumerAppearsOnceIffAbuse ==
    ReportBuilt =>
        \A c \in Credentials :
            /\ (TallyOf(c) >= 100) <=> (LinesOfConsumer(ConsumerOf(c)) >= 1)
            /\ (TallyOf(c) >= 100) =>
                  /\ LinesOfConsumer(ConsumerOf(c)) = 1
                  /\ \A i \in 1..Len(consumer_abuse_table) :
                        consumer_abuse_table[i].consumer_id = ConsumerOf(c)
                            => consumer_abuse_table[i].tokens = TallyOf(c)

\* the entries of the tally at or over the threshold, in dict order
Offending == SelectSeq(consumer_tokens, LAMBDA e : e.value >= 100)

\* C3 amended: when the report is built, it holds one line for each
\* credential whose tally is >= 100, in dict order, carrying the consumer id
\* and username of that credential and that tally, and no other line.
C3_OneLinePerOffendingCredential ==
    ReportBuilt =>
        /\ Len(consumer_abuse_table) = Len(Offending)
        /\ \A i \in 1..Len(Offending) :
              /\ consumer_abuse_table[i].consumer_id = ConsumerOf(Offending[i].key)
              /\ consumer_abuse_table[i].username = UsernameOf(ConsumerOf(Offending[i].key))
              /\ consumer_abuse_table[i].tokens = Offending[i].value

C3_Witness ==
    /\ pc = "done"
    /\ Len(consumer_abuse_table) = 1
    /\ consumer_abuse_table[1].tokens = 100
    /\ \E i \in 1..Len(consumer_tokens) : consumer_tokens[i].value = 99
    /\ \E i \in 1..Len(consumer_tokens) : consumer_tokens[i].value = 40

\* C4: once the scan has completed, every credential some of whose tokens
\* were deleted has exactly one tally entry, equal to the number of its
\* tokens deleted, and a credential none of whose tokens were deleted has
\* no entry.
C4_TallyMatchesDeletions ==
    ScanCompleted =>
        LET present == PresentIds IN
        \A c \in Credentials :
            LET n == Cardinality({i \in 1..Len(rows) :
                        rows[i].credential_id = c /\ rows[i].id \notin present})
                entries == {i \in 1..Len(consumer_tokens) : consumer_tokens[i].key = c}
            IN  IF n = 0
                THEN entries = {}
                ELSE /\ Cardinality(entries) = 1
                     /\ \A i \in entries : consumer_tokens[i].value = n

C4_Witness ==
    /\ pc = "done"
    /\ \E i \in 1..Len(consumer_tokens) :
          consumer_tokens[i].key = "c1" /\ consumer_tokens[i].value = 1
    /\ \E i \in 1..Len(rows) : rows[i].credential_id = "c2"
    /\ ~HasKey(consumer_tokens, "c2")

\* C5: at most one email is sent, and one is sent only when both --email
\* and --smtpserver are set.
C5_EmailOnlyWhenConfigured ==
    /\ emails <= 1
    /\ emails >= 1 => (args.email # None /\ args.smtpserver # None)

C5_Witness ==
    /\ pc = "done"
    /\ args.email # None
    /\ args.smtpserver = None
    /\ emails = 0

\* C6: with --ssl set and --ca missing or naming no existing file, the run
\* goes from the argument check to the usage error and nowhere else: no
\* connection, no count, no delete, no email.
C6_NoConnectionOnBadTruststore ==
    (args.ssl /\ (args.ca = None \/ args.ca = "missing.pem")) =>
        /\ pc \in {"parse", "usage_error"}
        /\ cluster = "none"
        /\ emails = 0
        /\ rowsdeleted = 0
        /\ count_before = 0
        /\ raised = "none"

C6_Witness ==
    /\ pc = "usage_error"
    /\ args.ssl
    /\ args.ca = "missing.pem"
    /\ Len(oauth2_tokens) > 0

\* C7: a run that has connected and has ended has shut the cluster down.
C7_ReleasedOnEveryExit ==
    (pc \in {"done", "failed"} /\ cluster # "none") => cluster = "shutdown"

\* C8: a failure of a DELETE or of an abuse lookup ends the run: from then on
\* the table, the email count and every other part of the state stay as they
\* are; and no step ever puts a record back into the table.
C8_RowFailureAborts ==
    /\ [](raised # "none" => pc = "failed")
    /\ [][/\ raised \in {"scan", "report"} => UNCHANGED vars
          /\ oauth2_tokens' # oauth2_tokens =>
                LET present == PresentIds IN
                \A k \in 1..Len(oauth2_tokens') :
                    oauth2_tokens'[k].id \in present]_vars

C8_Witness ==
    /\ pc = "failed"
    /\ raised = "scan"
    /\ Len(oauth2_tokens) < Len(rows) - 1
    /\ idx < Len(rows)
    /\ emails = 0

\* C9: once the scan has completed, a naive record and an explicitly UTC
\* record with the same wall-clock created_at and the same expires_in are
\* both gone or both retained.
C9_NaiveSameAsUtc ==
    ScanCompleted =>
        LET present == PresentIds IN
        \A i \in 1..Len(rows) :
            rows[i].created_at.tz = "UTC" =>
                \A j \in 1..Len(rows) :
                    (/\ rows[j].created_at.tz = None
                     /\ rows[j].created_at.wall = rows[i].created_at.wall
                     /\ rows[j].expires_in = rows[i].expires_in)
                        => ((rows[i].id \in present) <=> (rows[j].id \in present))

C9_Witness ==
    /\ pc = "done"
    /\ Len(rows) = 2
    /\ rows[1].created_at.tz = None
    /\ rows[2].created_at.tz = "UTC"
    /\ rows[1].expires_in = rows[2].expires_in
    /\ oauth2_tokens = <<>>

\* the phases in order
PhaseOrder == <<"parse", "connect", "now", "count_before", "select", "scan",
                "count_after", "report", "notify", "shutdown", "done">>

PhaseRank(p) == CHOOSE i \in 1..Len(PhaseOrder) : PhaseOrder[i] = p

\* C10: every step starts in a phase that is not terminal and stays in the
\* phase, moves to the next one (passing over a loop that has nothing to
\* iterate) or ends the run in an error; the table changes only in the scan,
\* the counts are read only in their phases, the email is sent only in
\* Notify and the cluster is shut down only in Disconnect.
C10_PhasesInOrder ==
    [][/\ pc \notin Terminal
       /\ \/ pc' \in {"failed", "usage_error"}
          \/ pc' = pc
          \/ PhaseRank(pc') = PhaseRank(pc) + 1
          \/ pc = "select" /\ pc' = "count_after" /\ rows' = <<>>
          \/ pc = "count_after" /\ pc' = "notify" /\ consumer_tokens = <<>>
       /\ pc' = "failed" => pc \notin {"parse", "now", "shutdown"}
       /\ pc' = "usage_error" => pc = "parse"
       /\ oauth2_tokens' # oauth2_tokens => pc = "scan"
       /\ count_before' # count_before => pc = "count_before"
       /\ count_after' # count_after => pc = "count_after"
       /\ emails' # emails => pc = "notify"
       /\ cluster' # cluster => pc \in {"connect", "shutdown"}]_vars

C10_Witness ==
    /\ pc = "done"
    /\ cluster = "shutdown"
    /\ rowsdeleted > 0
    /\ count_before > 0
    /\ emails = 1
    /\ Len(consumer_abuse_table) > 0

====
